---- MODULE Spec2Model ----
(***************************************************************************)
(* Model of src/native/scripts/macos/darwin/process-list.py: the template  *)
(* script that lists the CoreGraphics windows owned by one process id and  *)
(* prints them as a JSON array.                                            *)
(*                                                                         *)
(* Text is modelled as a sequence of one-character strings, so that the    *)
(* template substitution, Python's reading of the rendered line 10, int()  *)
(* and str() are computed character by character.                          *)
(***************************************************************************)
EXTENDS Integers, Sequences, FiniteSets

VARIABLES
    token,        \* the text the host substituted for {{PID}}
    server,       \* the window server's windows, in the order it reports them
    pc,           \* position of the script
    pid,          \* <<>> while the name is unbound, <<n>> once line 10 ran
    osResult,     \* outcome of the CGWindowListCopyWindowInfo call
    osCalls,      \* how many times the OS enumeration call was made
    window_list,  \* the list the OS call returned
    idx,          \* position of the for loop in window_list
    result,       \* the records collected so far
    stdout,       \* the values written to standard output, in order
    exit,         \* <<>> while running, <<status>> once the process ended
    faultAt       \* the step at which an uncaught error ended the script

vars == <<token, server, pc, pid, osResult, osCalls, window_list, idx,
          result, stdout, exit, faultAt>>

----------------------------------------------------------------------------
(* Bounds of the model *)

MaxTokLen == 4
MaxWindows == 2
MaxPid == 1

----------------------------------------------------------------------------
(* Characters and text *)

Quote == "\""

DigitChars == <<"0", "1", "2", "3", "4", "5", "6", "7", "8", "9">>

IsDigit(c) == \E d \in 1..10 : DigitChars[d] = c

DigitVal(c) == (CHOOSE d \in 1..10 : DigitChars[d] = c) - 1

IsSpace(c) == c = " "

IsLetter(c) == c = "a"

IsAlnum(c) == IsDigit(c) \/ IsLetter(c)

SetMin(S) == CHOOSE x \in S : \A y \in S : x <= y

SetMax(S) == CHOOSE x \in S : \A y \in S : y <= x

(* The unrendered placeholder of line 10. *)
Placeholder == <<"{", "{", "P", "I", "D", "}", "}">>

(* str(n) of a Python int: the decimal text, with a minus sign if negative. *)
RECURSIVE Str(_)
Str(n) ==
    IF n < 0 THEN <<"-">> \o Str(-n)
    ELSE IF n < 10 THEN <<DigitChars[n + 1]>>
    ELSE Str(n \div 10) \o <<DigitChars[(n % 10) + 1]>>

RECURSIVE DigitsValue(_)
DigitsValue(ds) ==
    IF ds = <<>> THEN 0
    ELSE 10 * DigitsValue(SubSeq(ds, 1, Len(ds) - 1)) + DigitVal(ds[Len(ds)])

Strip(s) ==
    LET keep == {i \in DOMAIN s : ~IsSpace(s[i])}
    IN  IF keep = {} THEN <<>> ELSE SubSeq(s, SetMin(keep), SetMax(keep))

(* int(s) of a Python str in base 10: surrounding whitespace is stripped,  *)
(* one sign is allowed, then digits, with single underscores between them. *)
(* ok = FALSE is the ValueError.                                           *)
PyInt(s) ==
    LET t == Strip(s)
        signed == t # <<>> /\ t[1] \in {"+", "-"}
        body == IF signed THEN Tail(t) ELSE t
        wellFormed ==
            /\ body # <<>>
            /\ \A i \in DOMAIN body :
                  \/ IsDigit(body[i])
                  \/ /\ body[i] = "_"
                     /\ i > 1 /\ i < Len(body)
                     /\ IsDigit(body[i - 1]) /\ IsDigit(body[i + 1])
        magnitude == DigitsValue(SelectSeq(body, IsDigit))
    IN  IF wellFormed
        THEN [ok |-> TRUE,
              value |-> IF signed /\ t[1] = "-" THEN -magnitude ELSE magnitude]
        ELSE [ok |-> FALSE, value |-> 0]

----------------------------------------------------------------------------
(* Line 10, pid = int("{{PID}}"): the rendered argument and how Python     *)
(* reads it.  The placeholder sits inside a double-quoted literal, so the  *)
(* substituted text lands between two quote characters of the source.      *)

(* Variant: the template int({{PID}}), without the quotes. *)
Render_Unquoted(text) == text

Render(text) == <<Quote>> \o text \o <<Quote>>

LexError == [ok |-> FALSE, toks |-> <<>>]

Cons(tok, rest) ==
    IF rest.ok THEN [ok |-> TRUE, toks |-> <<tok>> \o rest.toks] ELSE rest

(* Python's tokenizer on source text, from position i.  A string opened   *)
(* by three quotes runs to the next three quotes, any other string to the  *)
(* next quote on the same line; the file holds no double quote after line  *)
(* 10, so a string left open there is never closed.                        *)
RECURSIVE Lex(_, _)
Lex(s, i) ==
    IF i > Len(s) THEN [ok |-> TRUE, toks |-> <<>>]
    ELSE LET c == s[i] IN
      IF IsSpace(c) THEN Lex(s, i + 1)
      ELSE IF c = "+" THEN Cons([t |-> "PLUS", v |-> <<>>], Lex(s, i + 1))
      ELSE IF c = Quote THEN
        IF i + 2 <= Len(s) /\ s[i + 1] = Quote /\ s[i + 2] = Quote
        THEN LET ends == {j \in (i + 3)..(Len(s) - 2) :
                            s[j] = Quote /\ s[j + 1] = Quote /\ s[j + 2] = Quote}
             IN  IF ends = {} THEN LexError
                 ELSE LET j == SetMin(ends)
                      IN  Cons([t |-> "STR", v |-> SubSeq(s, i + 3, j - 1)],
                               Lex(s, j + 3))
        ELSE LET ends == {j \in (i + 1)..Len(s) : s[j] = Quote \/ s[j] = "\n"}
             IN  IF ends = {} \/ s[SetMin(ends)] = "\n" THEN LexError
                 ELSE LET j == SetMin(ends)
                      IN  Cons([t |-> "STR", v |-> SubSeq(s, i + 1, j - 1)],
                               Lex(s, j + 1))
      ELSE IF IsAlnum(c) THEN
        LET stops == {j \in i..Len(s) : ~IsAlnum(s[j])}
            e == IF stops = {} THEN Len(s) ELSE SetMin(stops) - 1
            word == SubSeq(s, i, e)
            allDigits == \A k \in DOMAIN word : IsDigit(word[k])
            allZero == \A k \in DOMAIN word : word[k] = "0"
        IN  IF IsLetter(c) THEN Cons([t |-> "NAME", v |-> word], Lex(s, e + 1))
            ELSE IF allDigits /\ (word[1] # "0" \/ allZero)
                 THEN Cons([t |-> "NUM", v |-> word], Lex(s, e + 1))
                 ELSE LexError
      ELSE LexError

IsAtom(tok) == tok.t # "PLUS"

(* The tokens form an expression: atoms joined by +, where only string     *)
(* literals may stand next to each other; no tokens at all is int().       *)
SyntaxOK(toks) ==
    \/ toks = <<>>
    \/ /\ IsAtom(toks[Len(toks)])
       /\ \A i \in 1..(Len(toks) - 1) :
             (IsAtom(toks[i]) /\ IsAtom(toks[i + 1]))
                => (toks[i].t = "STR" /\ toks[i + 1].t = "STR")

RECURSIVE ConcatAll(_)
ConcatAll(toks) ==
    IF toks = <<>> THEN <<>> ELSE toks[1].v \o ConcatAll(Tail(toks))

RECURSIVE SumAll(_)
SumAll(toks) ==
    IF toks = <<>> THEN 0 ELSE DigitsValue(toks[1].v) + SumAll(Tail(toks))

(* Evaluation of int(<expression>) at run time; ok = FALSE is an uncaught  *)
(* NameError, TypeError or ValueError.                                     *)
EvalInt(toks) ==
    LET atoms == SelectSeq(toks, IsAtom)
        unary == \E i \in DOMAIN toks :
                    toks[i].t = "PLUS" /\ (i = 1 \/ toks[i - 1].t = "PLUS")
        allStr == \A i \in DOMAIN atoms : atoms[i].t = "STR"
        allNum == \A i \in DOMAIN atoms : atoms[i].t = "NUM"
    IN  IF toks = <<>> THEN [ok |-> TRUE, value |-> 0]
        ELSE IF allStr /\ ~unary THEN PyInt(ConcatAll(atoms))
        ELSE IF allNum THEN [ok |-> TRUE, value |-> SumAll(atoms)]
        ELSE [ok |-> FALSE, value |-> 0]

(* What follows the placeholder inside the docstring of lines 1-4: the    *)
(* back quote, the rest of line 3 and the closing quotes of line 4.        *)
DocTail == <<"backquote", "\n", Quote, Quote, Quote>>

(* Lines 1-4 hold the placeholder too.  Text with three quotes in a row    *)
(* closes the docstring early; what is left of it is then read as code.    *)
DocTokens(text) ==
    LET trip == {j \in 1..(Len(text) - 2) :
                    text[j] = Quote /\ text[j + 1] = Quote /\ text[j + 2] = Quote}
    IN  IF trip = {} THEN [ok |-> TRUE, toks |-> <<[t |-> "STR", v |-> <<>>]>>]
        ELSE Cons([t |-> "STR", v |-> <<>>],
                  Lex(SubSeq(text, SetMin(trip) + 3, Len(text)) \o DocTail, 1))

(* The first statement evaluates without an uncaught error. *)
DocEvaluates(text) ==
    LET toks == DocTokens(text).toks
        atoms == SelectSeq(toks, IsAtom)
        unary == \E i \in DOMAIN toks :
                    toks[i].t = "PLUS" /\ (i = 1 \/ toks[i - 1].t = "PLUS")
    IN  /\ \A i \in DOMAIN atoms : atoms[i].t = "STR"
        /\ ~unary

Line10Tokens(text) == Lex(Render(text), 1)

(* The rendered script compiles. *)
Compiles(text) ==
    /\ DocTokens(text).ok /\ SyntaxOK(DocTokens(text).toks)
    /\ Line10Tokens(text).ok /\ SyntaxOK(Line10Tokens(text).toks)

(* The value line 10 gives pid, for a script that compiles. *)
PidOf(text) == EvalInt(Line10Tokens(text).toks)

----------------------------------------------------------------------------
(* The window server and the dictionaries it hands out *)

kCGWindowListOptionAll == "kCGWindowListOptionAll"

kCGWindowListOptionOnScreenOnly == "kCGWindowListOptionOnScreenOnly"

AllKeys == {"kCGWindowOwnerPID", "kCGWindowNumber", "kCGWindowName",
            "kCGWindowOwnerName", "kCGWindowBounds"}

EmptyDict == [k \in {} |-> 0]

(* A window dictionary with every key present. *)
FullInfo(owner, number) ==
    [kCGWindowOwnerPID |-> owner,
     kCGWindowNumber |-> number,
     kCGWindowName |-> "Notes",
     kCGWindowOwnerName |-> "NotesApp",
     kCGWindowBounds |-> [X |-> 0, Y |-> 0, Width |-> 800, Height |-> 600]]

Restrict(f, keys) == [k \in keys |-> f[k]]

(* Which keys a dictionary may carry: all, all but one, or none. *)
KeySets == {AllKeys} \cup {AllKeys \ {k} : k \in AllKeys} \cup {{}}

Owners == {1, 2}

WindowNumbers == {55}

Infos == {Restrict(FullInfo(o, n), ks) :
            o \in Owners, n \in WindowNumbers, ks \in KeySets}

(* A window the server knows: its dictionary, and whether it is on screen. *)
ServerWindows == [info : Infos, onscreen : BOOLEAN]

SeqsUpTo(S, n) == UNION {[1..m -> S] : m \in 0..n}

RECURSIVE InfosOf(_)
InfosOf(ws) ==
    IF ws = <<>> THEN <<>> ELSE <<ws[1].info>> \o InfosOf(Tail(ws))

IsOnscreen(w) == w.onscreen

(* CGWindowListCopyWindowInfo(option, kCGNullWindowID) when it succeeds:   *)
(* every window the server knows, or only those on screen.                 *)
CGWindowListCopyWindowInfo(option, ws) ==
    IF option = kCGWindowListOptionOnScreenOnly
    THEN InfosOf(SelectSeq(ws, IsOnscreen))
    ELSE InfosOf(ws)

(* Variant: only the windows on screen are asked for. *)
QueryOption_OnScreenOnly == kCGWindowListOptionOnScreenOnly

(* The option lines 12-15 pass. *)
QueryOption == kCGWindowListOptionAll

----------------------------------------------------------------------------
(* Lines 19-26: the test and the record built for a window *)

(* dict.get(key, default) *)
Get(window, key, default) ==
    IF key \in DOMAIN window THEN window[key] ELSE default

(* Variant: window.get('kCGWindowOwnerPID', 0) == pid *)
OwnerMatches_DefaultZero(window, p) ==
    Get(window, "kCGWindowOwnerPID", 0) = p

(* window.get('kCGWindowOwnerPID') == pid; a missing key gives None, which *)
(* equals no int.                                                          *)
OwnerMatches(window, p) ==
    "kCGWindowOwnerPID" \in DOMAIN window /\ window["kCGWindowOwnerPID"] = p

(* Variant: str(window.get('kCGWindowNumber')), no default: str(None). *)
WindowRecord_NoNumberDefault(window, p) ==
    [handle |-> IF "kCGWindowNumber" \in DOMAIN window
                THEN Str(window["kCGWindowNumber"])
                ELSE <<"N", "o", "n", "e">>,
     title |-> Get(window, "kCGWindowName", ""),
     className |-> Get(window, "kCGWindowOwnerName", ""),
     processId |-> p,
     bounds |-> Get(window, "kCGWindowBounds", EmptyDict)]

(* Variant: processId copied from the window's number instead of pid. *)
WindowRecord_IdFromWindow(window, p) ==
    [handle |-> Str(Get(window, "kCGWindowNumber", 0)),
     title |-> Get(window, "kCGWindowName", ""),
     className |-> Get(window, "kCGWindowOwnerName", ""),
     processId |-> Get(window, "kCGWindowNumber", 0),
     bounds |-> Get(window, "kCGWindowBounds", EmptyDict)]

WindowRecord(window, p) ==
    [handle |-> Str(Get(window, "kCGWindowNumber", 0)),
     title |-> Get(window, "kCGWindowName", ""),
     className |-> Get(window, "kCGWindowOwnerName", ""),
     processId |-> p,
     bounds |-> Get(window, "kCGWindowBounds", EmptyDict)]

(* json.dumps(list): one JSON array holding the records in order. *)
JsonDumps(list) == [json |-> "array", items |-> list]

----------------------------------------------------------------------------
(* Initial states *)

Chars == {"0", "1", Quote, "+", "a", " "}

(* The host rendered a pid, or left the placeholder in; the server holds   *)
(* any windows.                                                            *)
InitRendered ==
    /\ token \in {Str(n) : n \in 0..MaxPid} \cup {Placeholder}
    /\ server \in SeqsUpTo(ServerWindows, MaxWindows)

(* The host substituted arbitrary text. *)
InitAnyText ==
    /\ token \in SeqsUpTo(Chars, MaxTokLen)
    /\ server \in {<<>>, <<[info |-> FullInfo(1, 55), onscreen |-> TRUE]>>}

Init ==
    /\ (InitRendered \/ InitAnyText)
    /\ pc = "start"
    /\ pid = <<>>
    /\ osResult = "none"
    /\ osCalls = 0
    /\ window_list = <<>>
    /\ idx = 0
    /\ result = <<>>
    /\ stdout = <<>>
    /\ exit = <<>>
    /\ faultAt = "none"

----------------------------------------------------------------------------
(* Steps of the script *)

(* An uncaught exception, or a SyntaxError: traceback on stderr, status 1. *)
Fault(where) ==
    /\ pc' = "fault"
    /\ faultAt' = where
    /\ exit' = <<1>>

(* The interpreter compiles the rendered script and runs lines 1-4. *)
Start ==
    /\ pc = "start"
    /\ IF ~Compiles(token) THEN Fault("compile")
       ELSE IF ~DocEvaluates(token) THEN Fault("docstring")
       ELSE pc' = "import" /\ UNCHANGED <<faultAt, exit>>
    /\ UNCHANGED <<token, server, pid, osResult, osCalls, window_list, idx,
                   result, stdout>>

(* Lines 7-8: import json, import Quartz; Quartz may be missing. *)
ImportQuartz ==
    /\ pc = "import"
    /\ \E found \in BOOLEAN :
          IF found THEN pc' = "parse" /\ UNCHANGED <<faultAt, exit>>
          ELSE Fault("import")
    /\ UNCHANGED <<token, server, pid, osResult, osCalls, window_list, idx,
                   result, stdout>>

(* Line 10: pid = int("{{PID}}") *)
ParsePid ==
    /\ pc = "parse"
    /\ IF PidOf(token).ok
       THEN /\ pid' = <<PidOf(token).value>>
            /\ pc' = "query"
            /\ UNCHANGED <<faultAt, exit>>
       ELSE /\ Fault("parse")
            /\ UNCHANGED pid
    /\ UNCHANGED <<token, server, osResult, osCalls, window_list, idx,
                   result, stdout>>

(* Lines 12-17: the OS call returns the list, returns NULL (None), or      *)
(* raises; then result = [].                                               *)
QueryWindows ==
    /\ pc = "query"
    /\ osCalls' = osCalls + 1
    /\ \E outcome \in {"list", "null", "raise"} :
          /\ osResult' = outcome
          /\ IF outcome = "raise"
             THEN /\ Fault("query")
                  /\ UNCHANGED <<window_list, idx, result>>
             ELSE /\ window_list' = IF outcome = "list"
                                     THEN CGWindowListCopyWindowInfo(QueryOption, server)
                                     ELSE <<>>
                  /\ result' = <<>>
                  /\ idx' = 1
                  /\ pc' = "loop"
                  /\ UNCHANGED <<faultAt, exit>>
    /\ UNCHANGED <<token, server, pid, stdout>>

(* Variant: for window in (window_list or []): None read as no windows.   *)
IterateNone_AsEmpty ==
    /\ pc = "loop"
    /\ osResult = "null"
    /\ stdout' = Append(stdout, JsonDumps(result))
    /\ pc' = "done"
    /\ exit' = <<0>>
    /\ UNCHANGED <<token, server, pid, osResult, osCalls, window_list, idx,
                   result, faultAt>>

(* Line 18 on None: TypeError, 'NoneType' object is not iterable. *)
IterateNone ==
    /\ pc = "loop"
    /\ osResult = "null"
    /\ Fault("loop")
    /\ UNCHANGED <<token, server, pid, osResult, osCalls, window_list, idx,
                   result, stdout>>

(* Variant: result.insert(0, ...) instead of result.append(...) *)
LoopStep_Prepend ==
    /\ pc = "loop"
    /\ osResult = "list"
    /\ idx <= Len(window_list)
    /\ LET window == window_list[idx]
       IN  result' = IF OwnerMatches(window, pid[1])
                     THEN <<WindowRecord(window, pid[1])>> \o result
                     ELSE result
    /\ idx' = idx + 1
    /\ UNCHANGED <<token, server, pc, pid, osResult, osCalls, window_list,
                   stdout, exit, faultAt>>

(* Variant: the print of line 28 indented into the loop body. *)
LoopStep_PrintInside ==
    /\ pc = "loop"
    /\ osResult = "list"
    /\ idx <= Len(window_list)
    /\ LET window == window_list[idx]
           grown == IF OwnerMatches(window, pid[1])
                    THEN Append(result, WindowRecord(window, pid[1]))
                    ELSE result
       IN  /\ result' = grown
           /\ stdout' = Append(stdout, JsonDumps(grown))
    /\ idx' = idx + 1
    /\ UNCHANGED <<token, server, pc, pid, osResult, osCalls, window_list,
                   exit, faultAt>>

(* Lines 18-26: one iteration of the for loop. *)
LoopStep ==
    /\ pc = "loop"
    /\ osResult = "list"
    /\ idx <= Len(window_list)
    /\ LET window == window_list[idx]
       IN  result' = IF OwnerMatches(window, pid[1])
                     THEN Append(result, WindowRecord(window, pid[1]))
                     ELSE result
    /\ idx' = idx + 1
    /\ UNCHANGED <<token, server, pc, pid, osResult, osCalls, window_list,
                   stdout, exit, faultAt>>

(* Variant: if result: print(json.dumps(result)) *)
PrintResult_SkipEmpty ==
    /\ pc = "loop"
    /\ osResult = "list"
    /\ idx > Len(window_list)
    /\ stdout' = IF result = <<>> THEN stdout
                 ELSE Append(stdout, JsonDumps(result))
    /\ pc' = "done"
    /\ exit' = <<0>>
    /\ UNCHANGED <<token, server, pid, osResult, osCalls, window_list, idx,
                   result, faultAt>>

(* Line 28, after the loop: print(json.dumps(result)), then the end of the *)
(* script, status 0.                                                       *)
PrintResult ==
    /\ pc = "loop"
    /\ osResult = "list"
    /\ idx > Len(window_list)
    /\ stdout' = Append(stdout, JsonDumps(result))
    /\ pc' = "done"
    /\ exit' = <<0>>
    /\ UNCHANGED <<token, server, pid, osResult, osCalls, window_list, idx,
                   result, faultAt>>

Next ==
    \/ Start
    \/ ImportQuartz
    \/ ParsePid
    \/ QueryWindows
    \/ IterateNone
    \/ LoopStep
    \/ PrintResult

Spec == Init /\ [][Next]_vars

----------------------------------------------------------------------------
(* Properties *)

(* Positions of the dictionaries of a list whose owner is p. *)
MatchIdx(list, p) ==
    {i \in DOMAIN list :
        "kCGWindowOwnerPID" \in DOMAIN list[i]
        /\ list[i]["kCGWindowOwnerPID"] = p}

(* The k-th smallest member of a set of positions. *)
KthOf(S, k) == CHOOSE i \in S : Cardinality({j \in S : j <= i}) = k

Looping == osResult = "list" /\ pc \in {"loop", "done"}

(* The dictionary the k-th record was built from. *)
SourceOf(k) ==
    window_list[KthOf({i \in MatchIdx(window_list, pid[1]) : i < idx}, k)]

RecordKeys == {"handle", "title", "className", "processId", "bounds"}

(* text is the decimal text of a non-negative integer. *)
IsBareDecimal(text) ==
    /\ text # <<>>
    /\ \A i \in DOMAIN text : IsDigit(text[i])
    /\ text = Str(DigitsValue(text))

(* text is such a decimal text between two double quotes. *)
IsQuotedDecimal(text) ==
    /\ Len(text) >= 3
    /\ text[1] = Quote /\ text[Len(text)] = Quote
    /\ IsBareDecimal(SubSeq(text, 2, Len(text) - 1))

(* C1: at every point of the loop the records collected are, one for one   *)
(* and in the list's order, the dictionaries seen so far whose owner is    *)
(* pid: none with another owner, none dropped, duplicated or reordered.    *)
C1_FilterKeepsExactlyMatchesInOrder ==
    Looping =>
        LET seen == {i \in MatchIdx(window_list, pid[1]) : i < idx}
        IN  /\ Len(result) = Cardinality(seen)
            /\ \A k \in 1..Len(result) :
                  result[k] = WindowRecord(window_list[KthOf(seen, k)], pid[1])

C1_Witness ==
    /\ pc = "done"
    /\ Len(result) = 2
    /\ result[1] # result[2]

(* C2: once the OS call has returned a list the script cannot fault, each   *)
(* loop step moves on in the list, and it ends with status 0 having        *)
(* written exactly one JSON array, which is [] when no window is owned by  *)
(* pid.                                                                    *)
C2_SuccessWritesOneArray ==
    /\ [](osResult = "list" =>
            /\ pc \in {"loop", "done"}
            /\ idx <= Len(window_list) + 1
            /\ pc = "loop" => (ENABLED LoopStep \/ ENABLED PrintResult)
            /\ pc = "done" =>
                  /\ exit = <<0>>
                  /\ Len(stdout) = 1
                  /\ stdout[1].json = "array"
                  /\ MatchIdx(window_list, pid[1]) = {}
                        => stdout = <<JsonDumps(<<>>)>>)
    /\ [][(osResult = "list" /\ pc = "loop")
            => (pc' = "done" \/ idx' = idx + 1)]_vars

C2_Witness ==
    /\ pc = "done"
    /\ window_list # <<>>
    /\ MatchIdx(window_list, pid[1]) = {}
    /\ stdout = <<JsonDumps(<<>>)>>
    /\ exit = <<0>>

C4_FailedEnumerationIsAFault ==
    osResult \in {"null", "raise"} =>
        /\ stdout = <<>>
        /\ pc \in {"loop", "fault"}
        /\ pc = "loop" => (ENABLED IterateNone /\ ~ENABLED PrintResult)
        /\ pc = "fault" => (exit # <<>> /\ exit[1] # 0)
        /\ pc # "fault" => exit = <<>>

C4_Witness ==
    /\ osResult = "null"
    /\ pc = "fault"
    /\ faultAt = "loop"
    /\ server # <<>>

(* C5: text that int() does not accept makes the script fail before the    *)
(* OS call: no call is made, nothing is written, the status is non-zero.   *)
C5_InvalidTextFailsBeforeQuery ==
    ~PyInt(token).ok =>
        /\ osCalls = 0
        /\ stdout = <<>>
        /\ pc \in {"start", "import", "parse", "fault"}
        /\ pc = "fault" => (exit # <<>> /\ exit[1] # 0)

(* C6: each record has exactly the five keys; a field the dictionary       *)
(* carries is passed through (handle as the decimal text of the number),   *)
(* a missing one gets its default: title "", handle "0", className "",     *)
(* bounds {}; and a missing field never faults the loop.                   *)
C6_DefaultsForMissingFields ==
    Looping =>
        /\ pc # "fault"
        /\ \A k \in 1..Len(result) :
              LET r == result[k]
                  w == SourceOf(k)
              IN  /\ DOMAIN r = RecordKeys
                  /\ IF "kCGWindowName" \in DOMAIN w
                     THEN r.title = w["kCGWindowName"]
                     ELSE r.title = ""
                  /\ IF "kCGWindowOwnerName" \in DOMAIN w
                     THEN r.className = w["kCGWindowOwnerName"]
                     ELSE r.className = ""
                  /\ IF "kCGWindowBounds" \in DOMAIN w
                     THEN r.bounds = w["kCGWindowBounds"]
                     ELSE DOMAIN r.bounds = {}
                  /\ IF "kCGWindowNumber" \in DOMAIN w
                     THEN /\ IsBareDecimal(r.handle)
                          /\ PyInt(r.handle).value = w["kCGWindowNumber"]
                     ELSE r.handle = <<"0">>

C6_Witness ==
    /\ pc = "done"
    /\ Len(result) = 2
    /\ "kCGWindowNumber" \notin DOMAIN SourceOf(1)
    /\ result[1].handle = <<"0">>
    /\ "kCGWindowName" \notin DOMAIN SourceOf(2)
    /\ result[2].title = ""
    /\ result[2].handle = <<"5", "5">>

(* C7: every record collected carries the parsed pid as its processId.     *)
C7_ProcessIdIsInputPid ==
    \A k \in 1..Len(result) : pid # <<>> /\ result[k].processId = pid[1]

C7_Witness ==
    /\ pc = "done"
    /\ result # <<>>
    /\ \A k \in 1..Len(result) : result[k].handle # Str(pid[1])

(* C8 as stated: the bare decimal text of n and the same text between      *)
(* double quotes both get past line 10 with pid = n.                       *)
C8_BareAndQuotedBothParse ==
    (IsBareDecimal(token) \/ IsQuotedDecimal(token)) =>
        /\ faultAt \notin {"compile", "docstring", "parse"}
        /\ pid # <<>> => pid = <<DigitsValue(SelectSeq(token, IsDigit))>>

(* C8 amended: the bare decimal text of n gets past line 10 with pid = n;  *)
(* the same text between double quotes renders a script that does not      *)
(* compile: status 1, nothing written, no OS call.                         *)
C8_BareParsesQuotedFails ==
    /\ IsBareDecimal(token) =>
          /\ faultAt \notin {"compile", "docstring", "parse"}
          /\ pc \in {"query", "loop", "done"} => pid = <<DigitsValue(token)>>
    /\ IsQuotedDecimal(token) =>
          /\ pc \in {"start", "fault"}
          /\ pc = "fault" => (faultAt = "compile" /\ exit = <<1>>)
          /\ pid = <<>> /\ stdout = <<>> /\ osCalls = 0

C8_Witness ==
    /\ IsQuotedDecimal(token)
    /\ Len(token) = 4
    /\ pc = "fault"

(* C9: a loop step on a dictionary without kCGWindowOwnerPID adds no       *)
(* record, does not fault, and moves on to the next dictionary.            *)
C9_MissingOwnerIsSkipped ==
    [][(/\ pc = "loop" /\ osResult = "list"
        /\ idx <= Len(window_list)
        /\ "kCGWindowOwnerPID" \notin DOMAIN window_list[idx])
          => (result' = result /\ pc' = "loop" /\ idx' = idx + 1)]_vars

C9_Witness ==
    /\ pc = "done"
    /\ Len(window_list) = 2
    /\ "kCGWindowOwnerPID" \notin DOMAIN window_list[1]
    /\ window_list[1] # EmptyDict
    /\ Len(result) = 1

(* C10: standard output is written at most once, and only when pid is      *)
(* parsed, the OS call has returned its list and the loop has passed every *)
(* dictionary; a faulted run has written nothing, a finished one exactly   *)
(* the JSON of the result.                                                 *)
C10_SingleWriteAtTheEnd ==
    /\ Len(stdout) <= 1
    /\ pc = "fault" => stdout = <<>>
    /\ stdout # <<>> =>
          /\ pc = "done"
          /\ pid # <<>>
          /\ osResult = "list" /\ osCalls = 1
          /\ idx = Len(window_list) + 1
          /\ stdout = <<JsonDumps(result)>>

C10_Witness ==
    /\ pc = "done"
    /\ Len(window_list) >= 2
    /\ Len(stdout) = 1
    /\ Len(stdout[1].items) = 1

====
